---- MODULE Spec2Model ----
(***************************************************************************)
(* Model of the plan -> generate -> test -> self-fix loop of               *)
(* BankStatementParserAgent (agent.py).  One run of run() is one behaviour *)
(* of Spec: the variables are the fields of AgentState, the artifact file  *)
(* on disk, the node the graph is about to execute, and a few history      *)
(* variables that record what the collaborators (generation service,       *)
(* filesystem, test process) did.                                          *)
(*                                                                         *)
(* Texts are sequences of tokens: "F" is a bare fence (three backticks),   *)
(* "P" the word python, "W" one whitespace character, "x" and "y" any      *)
(* other character.  The tagged fence of _extract_code is <<"F","P">>.     *)
(* An Optional[str] is <<>> (None) or <<text>>.                            *)
(***************************************************************************)
EXTENDS Integers, Sequences, FiniteSets, TLC

\* ---------------------------------------------------------------- bounds
MaxLimit == 3
NumOutputs == 2
MaxTextLen == 6
MaxRows == 1
MaxPages == 2

\* history variables stop growing here (never reached by the code's runs)
HistCap == MaxLimit + 3

\* ------------------------------------------------------------- constants
MAX_ATTEMPTS == 3

Banks == {"icici", "sbi"}

TaggedFence == <<"F", "P">>
Fence == <<"F">>

None == <<>>
Some(t) == <<t>>

\* --------------------------------------------------- string operations
\* Python truthiness of an Optional[str]: None and "" are falsy
Truthy(opt) == opt # None /\ opt[1] # <<>>

\* pat occurs in text at position i
OccursAt(text, pat, i) ==
    /\ i >= 1
    /\ i + Len(pat) - 1 <= Len(text)
    /\ SubSeq(text, i, i + Len(pat) - 1) = pat

\* Python: pat in text
Contains(text, pat) == \E i \in 1..Len(text) : OccursAt(text, pat, i)

\* position of the first occurrence of pat in text (0 when there is none)
FirstIndex(text, pat) ==
    IF Contains(text, pat)
    THEN CHOOSE i \in 1..Len(text) :
            /\ OccursAt(text, pat, i)
            /\ \A j \in 1..(i - 1) : ~OccursAt(text, pat, j)
    ELSE 0

\* Python: text.split(pat)[0]
SplitFirst(text, pat) ==
    IF Contains(text, pat)
    THEN SubSeq(text, 1, FirstIndex(text, pat) - 1)
    ELSE text

\* the rest of text after the first occurrence of pat
AfterFirst(text, pat) ==
    SubSeq(text, FirstIndex(text, pat) + Len(pat), Len(text))

\* Python: text.split(pat)[1], for a text that contains pat
SplitSecond(text, pat) == SplitFirst(AfterFirst(text, pat), pat)

RECURSIVE LStrip(_)
LStrip(text) ==
    IF text # <<>> /\ Head(text) = "W" THEN LStrip(Tail(text)) ELSE text

RECURSIVE RStrip(_)
RStrip(text) ==
    IF text # <<>> /\ text[Len(text)] = "W"
    THEN RStrip(SubSeq(text, 1, Len(text) - 1))
    ELSE text

\* Python: text.strip()
Strip(text) == RStrip(LStrip(text))

\* _extract_code that splits at the first fence of any kind
ExtractCodeAnyFence(text) ==
    IF Contains(text, TaggedFence)
    THEN Some(Strip(SplitSecond(text, Fence)))
    ELSE IF text # <<>> THEN Some(Strip(text)) ELSE None

\* _extract_code(text) -> Optional[str]
ExtractCode(text) ==
    IF Contains(text, TaggedFence)
    THEN Some(Strip(SplitFirst(SplitSecond(text, TaggedFence), Fence)))
    ELSE IF text # <<>> THEN Some(Strip(text)) ELSE None

\* ------------------------------------------------------------- feedback
\* test_results: None or one of the five texts the nodes write; detail
\* stands for the interpolated part (exception text, stdout and stderr)
NoResults == [kind |-> "None", detail |-> 0]
GenFailed == [kind |-> "GenFailed", detail |-> 0]
GenException(e) == [kind |-> "GenException", detail |-> e]
TestsPassed == [kind |-> "Passed", detail |-> 0]
TestsFailed(out) == [kind |-> "TestsFailed", detail |-> out]
TestError(e) == [kind |-> "TestError", detail |-> e]
FirstAttemptSentinel == [kind |-> "FirstAttempt", detail |-> 0]

Outputs == 1..NumOutputs

\* ----------------------------------------------------------- environment
\* what the generation service can answer
Responses ==
    { <<>>,
      <<"W">>,
      <<"x">>,
      <<"W", "y", "W">>,
      <<"F", "x", "F">>,
      <<"F", "P", "W", "x", "W", "F">>,
      <<"x", "F", "P", "y", "F", "x">>,
      <<"F", "P", "W", "F">>,
      <<"F", "P", "x">>,
      <<"F", "P", "x", "F", "F", "P", "y", "F">> }

\* generate_content / response.text either give a text or raise
ServiceOutcomes ==
    { [ok |-> TRUE, text |-> t, err |-> 0] : t \in Responses }
    \cup { [ok |-> FALSE, text |-> <<>>, err |-> e] : e \in Outputs }

\* makedirs/open/write: all succeed, fail before the file is opened, or
\* fail after open(..., 'w') truncated it, with keep characters written.
\* err 0 is the text of the OSError or UnicodeEncodeError
FsOutcomes ==
    { [res |-> "ok", keep |-> 0, err |-> 0],
      [res |-> "open_error", keep |-> 0, err |-> 0] }
    \cup { [res |-> "write_error", keep |-> k, err |-> 0] : k \in 0..2 }

\* subprocess.run: an exit code with captured output, or an exception
\* (TimeoutExpired, OSError)
NoTest == [res |-> "none", out |-> 0]

TestOutcomes ==
    { [res |-> "exit0", out |-> 0] }
    \cup { [res |-> "nonzero", out |-> o] : o \in Outputs }
    \cup { [res |-> "error", out |-> o] : o \in Outputs }

\* ----------------------------------------------------------------- state
VARIABLES
    pc,             \* node the graph executes next, "END", or "crashed"
    messages,       \* AgentState.messages
    target_bank,
    parser_path,
    csv_path,
    current_code,   \* Optional[str]
    test_results,   \* feedback
    attempt_count,
    max_attempts,
    task_complete,
    artifact,       \* content of the file at parser_path (None: no file)
    prompt,         \* last prompt sent: target and embedded feedback
    \* history
    genCycles,      \* generation steps started
    testRuns,       \* verification runs
    fixCount,       \* self_fix steps
    planCount,      \* plan steps
    lastGen,        \* how the most recent generation step ended
    genHist,        \* how each generation step ended
    verHist,        \* result of each verification run
    prevArtifact,   \* artifact as it was when the last generation step began
    lastNode,       \* node executed by the previous step
    lastTest,       \* what the most recent verification run did
    lastExtracted,  \* what _extract_code returned in the last generation
    \* the two functions that are checked on their own
    exText,         \* argument of _extract_code
    exCode,         \* its result
    pdf,            \* the document parse() opens (None: no such file)
    parsed          \* its result

sessionVars == <<messages, target_bank, parser_path, csv_path, current_code,
                 test_results, attempt_count, max_attempts, task_complete>>
histVars == <<genCycles, testRuns, fixCount, planCount, lastGen, genHist,
              verHist, prevArtifact, lastNode, lastTest, lastExtracted>>
funVars == <<exText, exCode, pdf, parsed>>
vars == <<pc, sessionVars, artifact, prompt, histVars, funVars>>

ParserPath(bank) == <<"custom_parsers", bank, "_parser.py">>
CsvPath(bank) == <<"data", bank, bank, "_sample.csv">>

\* a parser file left by an earlier run
OldParser == <<"y", "y">>

Record(h, x) == IF Len(h) < HistCap THEN Append(h, x) ELSE h
Count(n) == IF n < HistCap THEN n + 1 ELSE n

\* run() with a counter that starts at 0
InitialStateZeroBased(bank, limit) ==
    [ messages |-> <<>>,
      target_bank |-> bank,
      parser_path |-> ParserPath(bank),
      csv_path |-> CsvPath(bank),
      attempt_count |-> 0,
      max_attempts |-> limit,
      task_complete |-> FALSE,
      current_code |-> None,
      test_results |-> NoResults ]

\* run(): the initial AgentState
InitialState(bank, limit) ==
    [ messages |-> <<>>,
      target_bank |-> bank,
      parser_path |-> ParserPath(bank),
      csv_path |-> CsvPath(bank),
      attempt_count |-> 1,
      max_attempts |-> limit,
      task_complete |-> FALSE,
      current_code |-> None,
      test_results |-> NoResults ]

Init ==
    \E bank \in Banks, limit \in (-1)..MaxLimit :
        LET s == InitialState(bank, limit) IN
        /\ pc = "plan"
        /\ messages = s.messages
        /\ target_bank = s.target_bank
        /\ parser_path = s.parser_path
        /\ csv_path = s.csv_path
        /\ current_code = s.current_code
        /\ test_results = s.test_results
        /\ attempt_count = s.attempt_count
        /\ max_attempts = s.max_attempts
        /\ task_complete = s.task_complete
        /\ artifact \in {None, Some(OldParser)}
        /\ prompt = None
        /\ genCycles = 0
        /\ testRuns = 0
        /\ fixCount = 0
        /\ planCount = 0
        /\ lastGen = "none"
        /\ genHist = <<>>
        /\ verHist = <<>>
        /\ prevArtifact = artifact
        /\ lastNode = "start"
        /\ lastTest = NoTest
        /\ lastExtracted = None
        /\ exText = <<>>
        /\ exCode = None
        /\ pdf = None
        /\ parsed = None

\* ----------------------------------------------------- conditional edges
\* _should_test that sends every generation to the tests
ShouldTestAlways(code) == "test"

\* _should_test
ShouldTest(code) == IF Truthy(code) THEN "test" ELSE "end"

\* _should_continue_fixing, with the hard-coded Config.MAX_ATTEMPTS in
\* place of the session's max_attempts
ShouldContinueFixingConfigLimit(complete, attempt, limit) ==
    IF complete THEN "end"
    ELSE IF attempt < MAX_ATTEMPTS THEN "fix" ELSE "end"

\* _should_continue_fixing without the task_complete test
ShouldContinueFixingIgnoreComplete(complete, attempt, limit) ==
    IF attempt < limit THEN "fix" ELSE "end"

\* _should_continue_fixing with <= for <
ShouldContinueFixingOffByOne(complete, attempt, limit) ==
    IF complete THEN "end"
    ELSE IF attempt <= limit THEN "fix" ELSE "end"

\* _should_continue_fixing that gives up one attempt early
ShouldContinueFixingStopsEarly(complete, attempt, limit) ==
    IF complete THEN "end"
    ELSE IF attempt + 1 < limit THEN "fix" ELSE "end"

\* _should_continue_fixing
ShouldContinueFixing(complete, attempt, limit) ==
    IF complete THEN "end"
    ELSE IF attempt < limit THEN "fix" ELSE "end"

\* the targets add_conditional_edges gives to the two routers
AfterGenerate(code) ==
    IF ShouldTest(code) = "test" THEN "run_tests" ELSE "END"

\* the router of run_tests wired straight back to generate_code
AfterTestsRegenerates(complete, attempt, limit) ==
    IF ShouldContinueFixing(complete, attempt, limit) = "fix"
    THEN "generate_code" ELSE "END"

AfterTests(complete, attempt, limit) ==
    IF ShouldContinueFixing(complete, attempt, limit) = "fix"
    THEN "self_fix" ELSE "END"

\* ----------------------------------------------------------------- nodes
\* _plan_node, then the edge plan -> generate_code
PlanNode ==
    /\ pc = "plan"
    /\ messages' = Append(messages, <<"user", target_bank>>)
    /\ pc' = "generate_code"
    /\ planCount' = Count(planCount)
    /\ lastNode' = "plan"
    /\ UNCHANGED <<target_bank, parser_path, csv_path, current_code,
                   test_results, attempt_count, max_attempts, task_complete,
                   artifact, prompt, genCycles, testRuns, fixCount, lastGen,
                   genHist, verHist, prevArtifact, lastTest, lastExtracted,
                   funVars>>

\* the AgentState dictionary the nodes receive
State ==
    [ messages |-> messages,
      target_bank |-> target_bank,
      parser_path |-> parser_path,
      csv_path |-> csv_path,
      attempt_count |-> attempt_count,
      max_attempts |-> max_attempts,
      task_complete |-> task_complete,
      current_code |-> current_code,
      test_results |-> test_results ]

\* Python: state.get(key, default); the default is for a missing key only
StateGet(s, key, default) == IF key \in DOMAIN s THEN s[key] ELSE default

\* the prompt built from a key that no node writes
BuildPromptWrongKey(s) ==
    Some([target |-> s.target_bank,
          feedback |-> StateGet(s, "feedback", FirstAttemptSentinel)])

\* the prompt of _generate_code_node: target and feedback position
BuildPrompt(s) ==
    Some([target |-> s.target_bank,
          feedback |-> StateGet(s, "test_results", FirstAttemptSentinel)])

Min(a, b) == IF a < b THEN a ELSE b

\* _generate_code_node whose except branch does not clear current_code
GenerateCodeResultKeepsCode(s, file, resp, fs) ==
    IF ~resp.ok
    THEN [state |-> [s EXCEPT !.test_results = GenException(resp.err)],
          artifact |-> file, outcome |-> "service_error"]
    ELSE LET code == ExtractCode(resp.text) IN
         IF Truthy(code) /\ fs.res = "ok"
         THEN [state |-> [s EXCEPT !.current_code = code],
               artifact |-> code, outcome |-> "code"]
         ELSE [state |-> [s EXCEPT !.test_results = GenFailed],
               artifact |-> file,
               outcome |-> IF Truthy(code) THEN "fs_error" ELSE "empty"]

\* _generate_code_node that writes the whole response to the file
GenerateCodeResultWritesRaw(s, file, resp, fs) ==
    IF ~resp.ok
    THEN [state |-> [s EXCEPT !.current_code = None,
                              !.test_results = GenException(resp.err)],
          artifact |-> file, outcome |-> "service_error"]
    ELSE LET code == ExtractCode(resp.text) IN
         IF Truthy(code)
         THEN IF fs.res = "ok"
              THEN [state |-> [s EXCEPT !.current_code = code],
                    artifact |-> Some(resp.text), outcome |-> "code"]
              ELSE [state |-> [s EXCEPT !.current_code = None,
                                        !.test_results =
                                            GenException(fs.err)],
                    artifact |-> file, outcome |-> "fs_error"]
         ELSE [state |-> [s EXCEPT !.current_code = None,
                                   !.test_results = GenFailed],
               artifact |-> file, outcome |-> "empty"]

\* the try block of _generate_code_node on state s and artifact file, for a
\* service outcome resp and a filesystem outcome fs
GenerateCodeResult(s, file, resp, fs) ==
    IF ~resp.ok
    THEN [state |-> [s EXCEPT !.current_code = None,
                              !.test_results = GenException(resp.err)],
          artifact |-> file, outcome |-> "service_error"]
    ELSE LET code == ExtractCode(resp.text) IN
         IF Truthy(code)
         THEN CASE fs.res = "ok" ->
                     [state |-> [s EXCEPT !.current_code = code],
                      artifact |-> code, outcome |-> "code"]
                [] fs.res = "open_error" ->
                     [state |-> [s EXCEPT !.current_code = None,
                                          !.test_results =
                                              GenException(fs.err)],
                      artifact |-> file, outcome |-> "fs_error"]
                [] fs.res = "write_error" ->
                     [state |-> [s EXCEPT !.current_code = None,
                                          !.test_results =
                                              GenException(fs.err)],
                      artifact |->
                          Some(SubSeq(code[1], 1,
                                      Min(fs.keep, Len(code[1]) - 1))),
                      outcome |-> "fs_error"]
         ELSE [state |-> [s EXCEPT !.current_code = None,
                                   !.test_results = GenFailed],
               artifact |-> file, outcome |-> "empty"]

\* _generate_code_node with read_csv inside the try block: the read failure
\* is caught like a service exception
GenerateCodeCrashCaught ==
    /\ pc = "generate_code"
    /\ pc' = "END"
    /\ current_code' = None
    /\ test_results' = GenException(0)
    /\ genCycles' = Count(genCycles)
    /\ lastGen' = "read_error"
    /\ genHist' = Record(genHist, "read_error")
    /\ prevArtifact' = artifact
    /\ lastNode' = "generate_code"
    /\ UNCHANGED <<messages, target_bank, parser_path, csv_path,
                   attempt_count, max_attempts, task_complete, artifact,
                   prompt, testRuns, fixCount, planCount, verHist, lastTest,
                   lastExtracted, funVars>>

\* pd.read_csv raises before the try block: the exception leaves invoke()
\* and run(); the session is lost
GenerateCodeCrash ==
    /\ pc = "generate_code"
    /\ pc' = "crashed"
    /\ genCycles' = Count(genCycles)
    /\ lastGen' = "read_error"
    /\ genHist' = Record(genHist, "read_error")
    /\ prevArtifact' = artifact
    /\ lastNode' = "generate_code"
    /\ UNCHANGED <<sessionVars, artifact, prompt, testRuns, fixCount,
                   planCount, verHist, lastTest, lastExtracted, funVars>>

\* _generate_code_node, then the conditional edge _should_test
GenerateCodeNode ==
    /\ pc = "generate_code"
    /\ \E resp \in ServiceOutcomes, fs \in FsOutcomes :
          LET r == GenerateCodeResult(State, artifact, resp, fs) IN
          /\ prompt' = BuildPrompt(State)
          /\ current_code' = r.state.current_code
          /\ test_results' = r.state.test_results
          /\ artifact' = r.artifact
          /\ lastGen' = r.outcome
          /\ genHist' = Record(genHist, r.outcome)
          /\ lastExtracted' =
                 IF resp.ok THEN ExtractCode(resp.text) ELSE None
          /\ pc' = AfterGenerate(r.state.current_code)
    /\ genCycles' = Count(genCycles)
    /\ prevArtifact' = artifact
    /\ lastNode' = "generate_code"
    /\ UNCHANGED <<messages, target_bank, parser_path, csv_path,
                   attempt_count, max_attempts, task_complete, testRuns,
                   fixCount, planCount, verHist, lastTest, funVars>>

\* _run_tests_node that takes a non-zero return code for success
RunTestsResultInverted(s, t) ==
    CASE t.res = "nonzero" ->
            [s EXCEPT !.test_results = TestsPassed, !.task_complete = TRUE]
      [] t.res = "exit0" ->
            [s EXCEPT !.test_results = TestsFailed(t.out),
                      !.task_complete = FALSE]
      [] t.res = "error" ->
            [s EXCEPT !.test_results = TestError(t.out),
                      !.task_complete = FALSE]

\* _run_tests_node that keeps the output of the first failing run
RunTestsResultKeepsFirst(s, t) ==
    CASE t.res = "exit0" ->
            [s EXCEPT !.test_results = TestsPassed, !.task_complete = TRUE]
      [] t.res = "nonzero" ->
            [s EXCEPT !.test_results =
                          IF s.test_results.kind = "TestsFailed"
                          THEN s.test_results ELSE TestsFailed(t.out),
                      !.task_complete = FALSE]
      [] t.res = "error" ->
            [s EXCEPT !.test_results = TestError(t.out),
                      !.task_complete = FALSE]

\* _run_tests_node whose except branch records nothing
RunTestsResultErrorSilent(s, t) ==
    CASE t.res = "exit0" ->
            [s EXCEPT !.test_results = TestsPassed, !.task_complete = TRUE]
      [] t.res = "nonzero" ->
            [s EXCEPT !.test_results = TestsFailed(t.out),
                      !.task_complete = FALSE]
      [] t.res = "error" ->
            [s EXCEPT !.task_complete = FALSE]

\* the body of _run_tests_node on state s, for a process outcome t
RunTestsResult(s, t) ==
    CASE t.res = "exit0" ->
            [s EXCEPT !.test_results = TestsPassed, !.task_complete = TRUE]
      [] t.res = "nonzero" ->
            [s EXCEPT !.test_results = TestsFailed(t.out),
                      !.task_complete = FALSE]
      [] t.res = "error" ->
            [s EXCEPT !.test_results = TestError(t.out),
                      !.task_complete = FALSE]

\* _run_tests_node, then the conditional edge _should_continue_fixing
RunTestsNode ==
    /\ pc = "run_tests"
    /\ \E t \in TestOutcomes :
          LET r == RunTestsResult(State, t) IN
          /\ test_results' = r.test_results
          /\ task_complete' = r.task_complete
          /\ verHist' = Record(verHist, t.res)
          /\ lastTest' = t
          /\ pc' = AfterTests(r.task_complete, r.attempt_count,
                              r.max_attempts)
    /\ testRuns' = Count(testRuns)
    /\ lastNode' = "run_tests"
    /\ UNCHANGED <<messages, target_bank, parser_path, csv_path,
                   current_code, attempt_count, max_attempts, artifact,
                   prompt, genCycles, fixCount, planCount, lastGen, genHist,
                   prevArtifact, lastExtracted, funVars>>

\* _self_fix_node that leaves the counter alone
NextAttemptStuck(attempt) == attempt

\* _self_fix_node: state['attempt_count'] += 1
NextAttempt(attempt) == attempt + 1

\* _self_fix_node that also forgets the feedback of the failed run
SelfFixNodeClearsFeedback ==
    /\ pc = "self_fix"
    /\ attempt_count' = NextAttempt(attempt_count)
    /\ test_results' = NoResults
    /\ pc' = "generate_code"
    /\ fixCount' = Count(fixCount)
    /\ lastNode' = "self_fix"
    /\ UNCHANGED <<messages, target_bank, parser_path, csv_path,
                   current_code, max_attempts, task_complete,
                   artifact, prompt, genCycles, testRuns, planCount, lastGen,
                   genHist, verHist, prevArtifact, lastTest, lastExtracted,
                   funVars>>

\* _self_fix_node, then the edge self_fix -> generate_code
SelfFixNode ==
    /\ pc = "self_fix"
    /\ attempt_count' = NextAttempt(attempt_count)
    /\ pc' = "generate_code"
    /\ fixCount' = Count(fixCount)
    /\ lastNode' = "self_fix"
    /\ UNCHANGED <<messages, target_bank, parser_path, csv_path,
                   current_code, test_results, max_attempts, task_complete,
                   artifact, prompt, genCycles, testRuns, planCount, lastGen,
                   genHist, verHist, prevArtifact, lastTest, lastExtracted,
                   funVars>>

\* the summary run() prints for the final state s
RunSummary(s) ==
    IF s.task_complete
    THEN [success |-> TRUE, attempts |-> 0, last |-> NoResults]
    ELSE [success |-> FALSE, attempts |-> s.attempt_count,
          last |-> s.test_results]

Next ==
    \/ PlanNode
    \/ GenerateCodeCrash
    \/ GenerateCodeNode
    \/ RunTestsNode
    \/ SelfFixNode

Spec == Init /\ [][Next]_vars

\* the graph runs its nodes one after the other until none is left
FairSpec == Spec /\ WF_vars(Next)

Terminated == pc = "END"
Crashed == pc = "crashed"

TypeOK ==
    /\ pc \in {"plan", "generate_code", "run_tests", "self_fix", "END",
               "crashed"}
    /\ target_bank \in Banks
    /\ attempt_count \in 1..HistCap
    /\ max_attempts \in (-1)..MaxLimit
    /\ task_complete \in BOOLEAN
    /\ genCycles \in 0..HistCap
    /\ testRuns \in 0..HistCap

\* ------------------------------------------- _extract_code on its own
Tokens == {"F", "P", "W", "x"}
Texts == UNION { [1..n -> Tokens] : n \in 0..MaxTextLen }

\* the main variables while one of the two functions is exercised alone
SessionIdle ==
    LET s == InitialState("icici", MAX_ATTEMPTS) IN
    /\ messages = s.messages
    /\ target_bank = s.target_bank
    /\ parser_path = s.parser_path
    /\ csv_path = s.csv_path
    /\ current_code = s.current_code
    /\ test_results = s.test_results
    /\ attempt_count = s.attempt_count
    /\ max_attempts = s.max_attempts
    /\ task_complete = s.task_complete
    /\ artifact = None
    /\ prompt = None
    /\ genCycles = 0
    /\ testRuns = 0
    /\ fixCount = 0
    /\ planCount = 0
    /\ lastGen = "none"
    /\ genHist = <<>>
    /\ verHist = <<>>
    /\ prevArtifact = None
    /\ lastNode = "start"
    /\ lastTest = NoTest
    /\ lastExtracted = None

ExtractInit ==
    /\ SessionIdle
    /\ pc = "extract_call"
    /\ exText \in Texts
    /\ exCode = None
    /\ pdf = None
    /\ parsed = None

\* one call of _extract_code(exText)
ExtractCall ==
    /\ pc = "extract_call"
    /\ exCode' = ExtractCode(exText)
    /\ pc' = "extract_return"
    /\ UNCHANGED <<sessionVars, artifact, prompt, histVars, exText, pdf,
                   parsed>>

ExtractNext == ExtractCall

ExtractSpec == ExtractInit /\ [][ExtractNext]_vars

\* ------------------------------------------------ parse() on its own
\* custom_parsers/icici_parser.py.  A cell of an extracted table is "null"
\* (None), "empty" (""), "blank" (whitespace), "num" (digits with commas and
\* a point) or "text" (anything else).
REQUIRED_COLUMNS ==
    <<"Date", "Description", "Debit Amt", "Credit Amt", "Balance">>

HeaderRow == <<"text", "text", "text", "text", "text">>
DataRows ==
    { <<>>,
      <<"text", "text", "num", "null", "num">>,
      <<"text", "text", "blank", "empty", "num">>,
      <<"text", "text", "text", "num", "num">>,
      <<"text", "text", "num", "num">> }

SeqsUpTo(S, n) == UNION { [1..k -> S] : k \in 0..n }

Tables ==
    { <<>> } \cup { <<HeaderRow>> \o rows : rows \in SeqsUpTo(DataRows, MaxRows) }
\* page.extract_tables(): no table or one table
Pages == SeqsUpTo(Tables, 1)
PdfFiles == { None } \cup { Some(pages) : pages \in SeqsUpTo(Pages, MaxPages) }

\* Python truthiness of a cell
CellTruthy(cell) == cell \notin {"null", "empty"}

\* str(cell).strip()
CellStr(cell) ==
    CASE cell = "null" -> "None"
      [] cell \in {"empty", "blank"} -> ""
      [] OTHER -> cell

\* float(str(cell).replace(",", "").strip()) if cell and str(cell).strip()
\* else None; ok is FALSE when float() raises ValueError
Amount(cell) ==
    IF CellTruthy(cell) /\ CellStr(cell) # ""
    THEN IF cell = "num"
         THEN [ok |-> TRUE, value |-> "float"]
         ELSE [ok |-> FALSE, value |-> "ValueError"]
    ELSE [ok |-> TRUE, value |-> "None"]

\* the body of the row loop: the row_data dictionaries the row adds (as
\* sequences of key and value, in insertion order)
RowData(row) ==
    IF row # <<>> /\ Len(row) = 5
    THEN LET debit == Amount(row[3])
             credit == Amount(row[4])
             balance == Amount(row[5])
         IN IF debit.ok /\ credit.ok /\ balance.ok
            THEN << << <<"Date", CellStr(row[1])>>,
                       <<"Description", CellStr(row[2])>>,
                       <<"Debit Amt", debit.value>>,
                       <<"Credit Amt", credit.value>>,
                       <<"Balance", balance.value>> >> >>
            ELSE <<>>
    ELSE <<>>

RECURSIVE RowsData(_)
RowsData(rows) ==
    IF rows = <<>> THEN <<>> ELSE RowData(Head(rows)) \o RowsData(Tail(rows))

\* if table: for row in table[1:]
TableData(table) == IF table = <<>> THEN <<>> ELSE RowsData(Tail(table))

RECURSIVE TablesData(_)
TablesData(tables) ==
    IF tables = <<>> THEN <<>>
    ELSE TableData(Head(tables)) \o TablesData(Tail(tables))

RECURSIVE PagesData(_)
PagesData(pages) ==
    IF pages = <<>> THEN <<>>
    ELSE TablesData(Head(pages)) \o PagesData(Tail(pages))

\* pd.DataFrame(list of dicts): the columns are the keys of the dicts, and
\* there is none for an empty list
DataFrame(all_data) ==
    [ columns |-> IF all_data = <<>> THEN <<>>
                  ELSE [i \in 1..Len(all_data[1]) |-> all_data[1][i][1]],
      rows |-> all_data ]

\* parse(pdf_path) -> Optional[DataFrame]
Parse(file) ==
    IF file = None THEN None ELSE Some(DataFrame(PagesData(file[1])))

ParseInit ==
    /\ SessionIdle
    /\ pc = "parse_call"
    /\ pdf \in PdfFiles
    /\ parsed = None
    /\ exText = <<>>
    /\ exCode = None

\* one call of parse(pdf_path)
ParseCall ==
    /\ pc = "parse_call"
    /\ parsed' = Parse(pdf)
    /\ pc' = "parse_return"
    /\ UNCHANGED <<sessionVars, artifact, prompt, histVars, exText, exCode,
                   pdf>>

ParseNext == ParseCall

ParseSpec == ParseInit /\ [][ParseNext]_vars

\* ------------------------------------------------------------ properties
LastVerify == IF verHist = <<>> THEN "none" ELSE verHist[Len(verHist)]
VerifyFailed(res) == res \in {"nonzero", "error"}
NoCode(outcome) ==
    outcome \in {"empty", "service_error", "fs_error", "read_error"}
AllCode == \A i \in 1..Len(genHist) : genHist[i] = "code"
AllNonzero(h) == \A i \in 1..Len(h) : h[i] = "nonzero"
FailsThenPasses(h) ==
    /\ h # <<>>
    /\ h[Len(h)] = "exit0"
    /\ \A i \in 1..(Len(h) - 1) : h[i] = "nonzero"

\* C1: for every max_attempts >= 1, whatever the generation service and the
\* test process do, the run comes to an end (END, or the uncaught read_csv
\* exception, which is neither of the two collaborators) and has started at
\* most max_attempts + 1 generation steps
C1_Termination ==
    /\ <>(Terminated \/ Crashed)
    /\ [](max_attempts >= 1 => genCycles <= max_attempts + 1)

C1_Witness ==
    /\ Terminated
    /\ max_attempts >= 2
    /\ genCycles = max_attempts
    /\ ~task_complete

\* C2: once task_complete is true the run is at END, no generation or
\* verification step follows, and task_complete stays true
C2_SuccessFreezes ==
    /\ [](task_complete => Terminated)
    /\ [](LastVerify = "exit0" => Terminated /\ task_complete)
    /\ [][task_complete => /\ task_complete'
                           /\ genCycles' = genCycles
                           /\ testRuns' = testRuns]_vars

C2_Witness ==
    /\ task_complete
    /\ Terminated
    /\ attempt_count < max_attempts

\* C3 (as claimed): after a generation step that yielded no code, whatever
\* the cause, the tests are not run and the artifact file has the content it
\* had before the step
C3_NoCodeLeavesArtifact ==
    (lastNode = "generate_code" /\ NoCode(lastGen)) =>
        /\ pc \in {"END", "crashed"}
        /\ artifact = prevArtifact

\* C4: a service exception or an empty response is caught: the step records
\* the failure in test_results, clears current_code and goes to END with
\* task_complete false, whatever attempts remain
C4_GenerationFailureEnds ==
    (lastNode = "generate_code" /\ lastGen \in {"service_error", "empty"}) =>
        /\ Terminated
        /\ current_code = None
        /\ ~task_complete
        /\ lastGen = "service_error" => test_results.kind = "GenException"
        /\ lastGen = "empty" => test_results = GenFailed

C4_Witness ==
    /\ lastNode = "generate_code"
    /\ lastGen \in {"service_error", "empty"}
    /\ Terminated
    /\ attempt_count >= 2
    /\ attempt_count < max_attempts

\* C5: the step after a verification is self_fix iff the verification failed
\* and attempt_count < max_attempts, and END in every other case
C5_RoutingAfterTests ==
    [][pc = "run_tests" =>
          LET retry == /\ VerifyFailed(verHist'[Len(verHist')])
                       /\ attempt_count < max_attempts
          IN /\ pc' = "self_fix" <=> retry
             /\ pc' = "END" <=> ~retry]_vars

C5_Witness ==
    /\ pc = "self_fix"
    /\ LastVerify = "error"
    /\ attempt_count + 1 = max_attempts

\* C6: attempt_count starts at 1, self_fix adds exactly 1 to it, no other
\* step changes it, and self_fix runs only after a failed verification with
\* attempt_count < max_attempts
C6_AttemptCounter ==
    /\ attempt_count = 1
    /\ [][/\ attempt_count' >= attempt_count
          /\ pc = "self_fix" => attempt_count' = attempt_count + 1
          /\ pc # "self_fix" => attempt_count' = attempt_count]_vars
    /\ [](pc = "self_fix" => /\ lastNode = "run_tests"
                             /\ VerifyFailed(LastVerify)
                             /\ ~task_complete
                             /\ attempt_count < max_attempts)
    /\ [](attempt_count = 1 + fixCount)

C6_Witness ==
    /\ lastNode = "self_fix"
    /\ attempt_count = 3
    /\ fixCount = 2

\* C7: for max_attempts >= 0, attempt_count never exceeds max_attempts + 1
C7_AttemptBound == max_attempts >= 0 => attempt_count <= max_attempts + 1

C7_Witness ==
    /\ max_attempts = 0
    /\ attempt_count = max_attempts + 1
    /\ Terminated
    /\ testRuns = 1

\* C8: task_complete implies that the tests ran and that their last run
\* exited with 0; only a verification step sets task_complete
C8_DoneMeansPassed ==
    /\ [](task_complete => testRuns >= 1 /\ LastVerify = "exit0")
    /\ [][(~task_complete /\ task_complete') =>
              pc = "run_tests" /\ verHist'[Len(verHist')] = "exit0"]_vars

C8_Witness ==
    /\ task_complete
    /\ testRuns >= 2
    /\ LastVerify = "exit0"

C10_SuccessAtCycleK ==
    /\ (AllCode /\ FailsThenPasses(verHist) /\ Len(verHist) <= max_attempts)
          => /\ Terminated
             /\ task_complete
             /\ genCycles = Len(verHist)
             /\ testRuns = Len(verHist)
             /\ attempt_count = Len(verHist)
    /\ (AllCode /\ AllNonzero(verHist) /\ Len(verHist) < max_attempts)
          => ~Terminated

C10_Witness ==
    /\ Terminated
    /\ AllCode
    /\ FailsThenPasses(verHist)
    /\ Len(verHist) = MaxLimit
    /\ max_attempts = MaxLimit

\* C11: when every generation yields code and every verification exits
\* non-zero, then for max_attempts >= 1 the run ends after exactly
\* max_attempts generations and verifications with task_complete false,
\* attempt_count = max_attempts and test_results holding the output of the
\* last verification run
C11_ExhaustedBudget ==
    (Terminated /\ AllCode /\ AllNonzero(verHist) /\ max_attempts >= 1) =>
        /\ genCycles = max_attempts
        /\ testRuns = max_attempts
        /\ Len(verHist) = max_attempts
        /\ ~task_complete
        /\ attempt_count = max_attempts
        /\ lastTest.res = "nonzero"
        /\ test_results = TestsFailed(lastTest.out)

C11_Witness ==
    /\ Terminated
    /\ AllCode
    /\ AllNonzero(verHist)
    /\ max_attempts = MaxLimit
    /\ genCycles = MaxLimit
    /\ test_results = TestsFailed(NumOutputs)

\* C12: a verification that raises (timeout, spawn error) does not end the
\* run abnormally: test_results gets the failure text, task_complete is
\* false, and the next step is self_fix iff attempt_count < max_attempts,
\* END otherwise, as after a non-zero exit
C12_TestErrorIsFailure ==
    [][(pc = "run_tests" /\ lastTest'.res = "error") =>
          /\ test_results' = TestError(lastTest'.out)
          /\ ~task_complete'
          /\ pc' = IF attempt_count < max_attempts THEN "self_fix" ELSE "END"
          /\ \A o \in Outputs :
                 pc' = AfterTests(RunTestsResult(State,
                                      [res |-> "nonzero", out |-> o])
                                      .task_complete,
                                  attempt_count, max_attempts)]_vars

C12_Witness ==
    /\ lastNode = "run_tests"
    /\ lastTest.res = "error"
    /\ Terminated
    /\ attempt_count = max_attempts
    /\ max_attempts >= 2
    /\ test_results.kind = "TestError"

GenerationFailureText(results) == results.kind \in {"GenException", "GenFailed"}

\* C13 (as claimed): after a failure to read the reference file the session's
\* test_results holds a generation failure message
C13_ReadFailureGivesFeedback ==
    lastGen = "read_error" => GenerationFailureText(test_results)

\* C13 (amended): a failure to read the reference file is not caught: the run
\* stops there with the exception, no step follows, and test_results,
\* current_code and the artifact are as the previous step left them, so no
\* failure feedback is recorded for it
C13_ReadFailureAborts ==
    /\ [][(pc = "generate_code" /\ lastGen' = "read_error") =>
              /\ pc' = "crashed"
              /\ UNCHANGED <<sessionVars, artifact, prompt>>]_vars
    /\ [](lastGen = "read_error" =>
              /\ Crashed
              /\ ~GenerationFailureText(test_results)
              /\ ~task_complete)
    /\ [][Crashed => UNCHANGED vars]_vars

C13_Witness ==
    /\ Crashed
    /\ lastGen = "read_error"
    /\ genCycles = 2
    /\ test_results.kind = "TestsFailed"
    /\ Truthy(current_code)

\* C14 (as claimed): the prompt of the first generation step carries the
\* first-attempt sentinel in the feedback position
C14_FirstPromptSentinel ==
    (genCycles = 1 /\ prompt # None) =>
        prompt[1].feedback = FirstAttemptSentinel

\* positions where a tagged fence starts, and the fences after position i
TaggedStarts(text) ==
    { i \in 1..(Len(text) - 1) : text[i] = "F" /\ text[i + 1] = "P" }
FencesAfter(text, i) == { j \in (i + 1)..Len(text) : text[j] = "F" }
Least(S) == CHOOSE i \in S : \A j \in S : i <= j
Greatest(S) == CHOOSE i \in S : \A j \in S : j <= i

\* text without its leading and trailing whitespace
Trimmed(text) ==
    LET solid == { k \in 1..Len(text) : text[k] # "W" } IN
    IF solid = {} THEN <<>>
    ELSE SubSeq(text, Least(solid), Greatest(solid))

\* C15: _extract_code returns the trimmed text between the first tagged
\* fence and the next fence after it when the text has a tagged fence, the
\* whole text trimmed when it has none, and None for the empty text
C15_ExtractionCorrect ==
    pc = "extract_return" =>
        IF TaggedStarts(exText) # {}
        THEN LET open == Least(TaggedStarts(exText))
                 close == FencesAfter(exText, open + 1)
             IN close # {} =>
                   exCode = Some(Trimmed(SubSeq(exText, open + 2,
                                                Least(close) - 1)))
        ELSE IF exText = <<>>
             THEN exCode = None
             ELSE exCode = Some(Trimmed(exText))

C15_Witness ==
    /\ pc = "extract_return"
    /\ exText = <<"x", "F", "P", "W", "x", "F">>
    /\ exCode = Some(<<"x">>)

\* C16 (as claimed): for every PDF, parse returns a table whose columns are
\* exactly Date, Description, Debit Amt, Credit Amt, Balance, in that order
C16_ParserContract ==
    (pc = "parse_return" /\ pdf # None) =>
        /\ parsed # None
        /\ parsed[1].columns = REQUIRED_COLUMNS

\* C17: a self_fix step changes attempt_count and nothing else of the
\* session: target, paths, current_code, test_results, max_attempts,
\* task_complete and the artifact file are as before the step
C17_FixingChangesOnlyAttempt ==
    [][pc = "self_fix" =>
          /\ UNCHANGED <<target_bank, parser_path, csv_path, current_code,
                         test_results, max_attempts, task_complete,
                         artifact>>
          /\ attempt_count' # attempt_count]_vars

C17_Witness ==
    /\ lastNode = "self_fix"
    /\ attempt_count = 2
    /\ test_results.kind = "TestsFailed"
    /\ Truthy(current_code)
    /\ artifact = current_code

Edges ==
    { <<"plan", "generate_code">>,
      <<"generate_code", "run_tests">>,
      <<"generate_code", "END">>,
      <<"run_tests", "self_fix">>,
      <<"run_tests", "END">>,
      <<"self_fix", "generate_code">> }

\* C18: a run starts in plan and moves only along the six edges of the graph
\* (an uncaught read_csv exception ends it without an edge); plan runs
\* exactly once, run_tests is entered only from a generate_code step that
\* produced code, and nothing follows END
C18_GraphEdges ==
    /\ pc = "plan"
    /\ [][pc' # "crashed" => <<pc, pc'>> \in Edges]_vars
    /\ [](planCount <= 1 /\ (pc # "plan" => planCount = 1))
    /\ [][pc' = "run_tests" =>
              /\ pc = "generate_code"
              /\ lastGen' = "code"
              /\ Truthy(current_code')]_vars
    /\ [][Terminated => UNCHANGED vars]_vars

C18_Witness ==
    /\ Terminated
    /\ lastNode = "generate_code"
    /\ fixCount = 2
    /\ planCount = 1
    /\ testRuns = 2

\* C19: the prompt of a generation step that follows a failed verification
\* (through self_fix) embeds the feedback text that verification recorded
C19_PromptCarriesLastFailure ==
    [][(pc = "generate_code" /\ lastNode = "self_fix" /\ pc' # "crashed") =>
          /\ VerifyFailed(lastTest.res)
          /\ prompt' # None
          /\ prompt'[1].feedback =
                 IF lastTest.res = "nonzero"
                 THEN TestsFailed(lastTest.out)
                 ELSE TestError(lastTest.out)]_vars

C19_Witness ==
    /\ lastNode = "generate_code"
    /\ genCycles = 3
    /\ verHist = <<"nonzero", "error">>
    /\ prompt # None
    /\ prompt[1].feedback = TestError(NumOutputs)

\* C20: when the tests are about to run, the artifact file holds exactly the
\* code extracted in the generation step just before, which is current_code
C20_TestsSeeFreshArtifact ==
    pc = "run_tests" =>
        /\ lastNode = "generate_code"
        /\ lastGen = "code"
        /\ Truthy(current_code)
        /\ current_code = lastExtracted
        /\ artifact = lastExtracted

C20_Witness ==
    /\ pc = "run_tests"
    /\ genCycles >= 2
    /\ prevArtifact = Some(<<"x">>)
    /\ artifact = Some(<<"y">>)

\* C21: when a generation step is about to start, attempt_count is 1 plus the
\* number of generation steps already started; at END attempt_count is the
\* number of generation steps of the run, and so is the "after N attempts"
\* figure of the failure summary
C21_AttemptCountsGenerations ==
    /\ pc = "generate_code" => attempt_count = 1 + genCycles
    /\ Terminated => attempt_count = genCycles
    /\ (Terminated /\ ~task_complete) =>
           /\ ~RunSummary(State).success
           /\ RunSummary(State).attempts = genCycles

C21_Witness ==
    /\ Terminated
    /\ ~task_complete
    /\ lastGen = "empty"
    /\ genCycles = 3
    /\ RunSummary(State).attempts = 3

====
